---------------------------- MODULE Spec2Model ----------------------------
(***************************************************************************)
(* A model of deal's expression-to-constraint compiler                     *)
(* (deal/_solver/_eval_expr.py) and of the linter rules                    *)
(* (deal/linter/_rules.py).                                                *)
(*                                                                         *)
(* Both are pure functions of their input.  Every specification below      *)
(* draws the input in its initial state and has one action per handler     *)
(* (compiler) or per rule (linter) that applies the code to that input.    *)
(***************************************************************************)
EXTENDS Integers, Sequences, FiniteSets

VARIABLES
    node,       \* the astroid expression node handed to eval_expr
    ctx,        \* the Context: ctx.scope maps names to z3 values
    result,     \* what list(eval_expr(node, ctx)) ends in
    func,       \* the linter's Func: name, line, col, body tokens, contracts
    stubs,      \* the optional StubsManager handed to a rule
    rule,       \* the rule that ran on func ("none" before)
    errors,     \* the Errors the rule yielded, in order
    runs        \* the (contract, return site) pairs Contract.run was called on

vars == <<node, ctx, result, func, stubs, rule, errors, runs>>
compilerVars == <<node, ctx, result>>
linterVars == <<func, stubs, rule, errors, runs>>

(***************************************************************************)
(* Bounds of the model.                                                    *)
(***************************************************************************)
MaxPairs == 2       \* (operator, right) pairs of a Compare node
MaxValues == 2      \* operands of a BoolOp node
MaxArgs == 3        \* arguments of a Call node
MaxContracts == 2   \* contracts attached to a function
MaxReturns == 2     \* return sites of a function body
MaxRaised == 2      \* exceptions raised in a function body
MaxAsserts == 2     \* assert statements of a function body

Front(s) == SubSeq(s, 1, Len(s) - 1)
Last(s) == s[Len(s)]

RECURSIVE SeqsUpTo(_, _)
SeqsUpTo(S, n) ==
    IF n = 0 THEN {<<>>}
    ELSE LET shorter == SeqsUpTo(S, n - 1) IN
         shorter \cup {Append(s, x) : s \in {t \in shorter : Len(t) = n - 1}, x \in S}

(***************************************************************************)
(* The operator tables of _eval_expr.py.                                   *)
(***************************************************************************)
CONSTS == {"bool", "int", "float", "str"}
COMAPARISON == {"<", "<=", ">", ">=", "==", "!="}
UNARY_OPERATIONS == {"-", "+", "~"}
BIN_OPERATIONS ==
    {"+", "-", "*", "/", "**", "//", "%", "@", "&", "|", "^", "<<", ">>"}
BOOL_OPERATIONS == {"and", "or"}

(***************************************************************************)
(* z3 terms and the Python lists a generator may yield.  Every yielded     *)
(* element is a record of the same shape; tag tells a z3 term ("val",      *)
(* "sym", "app") from a Python list ("list").                              *)
(***************************************************************************)
Val(sort, v) == [tag |-> "val", op |-> sort, args |-> <<>>, val |-> v]
Sym(name) == [tag |-> "sym", op |-> "", args |-> <<>>, val |-> name]
App(op, args) == [tag |-> "app", op |-> op, args |-> args, val |-> ""]
List(items) == [tag |-> "list", op |-> "", args |-> items, val |-> ""]
IsTerm(e) == e.tag \in {"val", "sym", "app"}

(***************************************************************************)
(* What consuming the generator ends in: the list of yielded elements, or  *)
(* the exception raised on the way.                                        *)
(***************************************************************************)
Ok(terms) == [status |-> "ok", terms |-> terms]
Raise(exc) == [status |-> exc, terms |-> <<>>]
NotRun == [status |-> "not run", terms |-> <<>>]

(***************************************************************************)
(* astroid nodes.                                                          *)
(***************************************************************************)
Const(type, value) == [kind |-> "Const", type |-> type, value |-> value]
Name(name) == [kind |-> "Name", name |-> name]
BinOp(op, left, right) == [kind |-> "BinOp", op |-> op, left |-> left, right |-> right]
UnaryOp(op, operand) == [kind |-> "UnaryOp", op |-> op, operand |-> operand]
Pair(op, right) == [op |-> op, right |-> right]
Compare(left, ops) == [kind |-> "Compare", left |-> left, ops |-> ops]
BoolOp(op, values) == [kind |-> "BoolOp", op |-> op, values |-> values]
IfExp(test, body, orelse) ==
    [kind |-> "IfExp", test |-> test, body |-> body, orelse |-> orelse]
Call(callee, args) == [kind |-> "Call", func |-> callee, args |-> args]
Attribute(attrname) == [kind |-> "Attribute", attrname |-> attrname]
None == [kind |-> "None"]

(***************************************************************************)
(* ctx.scope.get(name): the bound z3 value, or None.                       *)
(***************************************************************************)
ScopeGet(c, name) == IF name \in DOMAIN c THEN c[name] ELSE None

RECURSIVE eval_expr(_, _)

eval_const(n, c) ==
    IF n.type \notin CONSTS THEN Raise("UnsupportedError")
    ELSE Ok(<<Val(n.type, n.value)>>)

eval_bin_op(n, c) ==
    IF n.op = "" THEN Raise("UnsupportedError")
    ELSE IF n.op \notin BIN_OPERATIONS
    THEN Raise("AttributeError")    \* repr(node.value): BinOp has no value
    ELSE LET lefts == eval_expr(n.left, c) IN
         IF lefts.status # "ok" THEN lefts
         ELSE LET rights == eval_expr(n.right, c) IN
              IF rights.status # "ok" THEN rights
              ELSE Ok(Front(lefts.terms) \o Front(rights.terms)
                      \o <<App(n.op, <<Last(lefts.terms), Last(rights.terms)>>)>>)

\* The loop of eval_compare over node.ops[i..], having yielded `yielded`.
RECURSIVE compare_loop(_, _, _, _, _)
compare_loop(ops, i, left, c, yielded) ==
    IF i > Len(ops) THEN Ok(yielded)
    ELSE IF ops[i].op = "" THEN Raise("UnsupportedError")
    ELSE IF ops[i].op \notin COMAPARISON THEN Raise("UnsupportedError")
    ELSE LET rights == eval_expr(ops[i].right, c) IN
         IF rights.status # "ok" THEN rights
         ELSE compare_loop(ops, i + 1, left, c,
                  yielded \o Front(rights.terms)
                  \o <<App(ops[i].op, <<left, Last(rights.terms)>>)>>)

\* A compiler that compares each pair against the previous pair's right
\* operand, as Python's own chained comparison does.
RECURSIVE compare_loop_chained(_, _, _, _, _)
compare_loop_chained(ops, i, left, c, yielded) ==
    IF i > Len(ops) THEN Ok(yielded)
    ELSE IF ops[i].op = "" THEN Raise("UnsupportedError")
    ELSE IF ops[i].op \notin COMAPARISON THEN Raise("UnsupportedError")
    ELSE LET rights == eval_expr(ops[i].right, c) IN
         IF rights.status # "ok" THEN rights
         ELSE compare_loop_chained(ops, i + 1, Last(rights.terms), c,
                  yielded \o Front(rights.terms)
                  \o <<App(ops[i].op, <<left, Last(rights.terms)>>)>>)

eval_compare_chained(n, c) ==
    LET lefts == eval_expr(n.left, c) IN
    IF lefts.status # "ok" THEN lefts
    ELSE compare_loop_chained(n.ops, 1, Last(lefts.terms), c, Front(lefts.terms))

eval_compare(n, c) ==
    LET lefts == eval_expr(n.left, c) IN
    IF lefts.status # "ok" THEN lefts
    ELSE compare_loop(n.ops, 1, Last(lefts.terms), c, Front(lefts.terms))

\* The loop `for subnode in nodes: xs = list(eval_expr(subnode)); yield from
\* xs[:-1]; collected.append(xs[-1])` shared by eval_bool_op and eval_call:
\* terms holds what was yielded, args what was collected.
RECURSIVE collect_loop(_, _, _, _, _)
collect_loop(nodes, i, c, yielded, collected) ==
    IF i > Len(nodes) THEN [status |-> "ok", terms |-> yielded, args |-> collected]
    ELSE LET xs == eval_expr(nodes[i], c) IN
         IF xs.status # "ok"
         THEN [status |-> xs.status, terms |-> <<>>, args |-> <<>>]
         ELSE collect_loop(nodes, i + 1, c, yielded \o Front(xs.terms),
                           Append(collected, Last(xs.terms)))

eval_bool_op(n, c) ==
    IF n.op = "" THEN Raise("UnsupportedError")
    ELSE IF n.op \notin BOOL_OPERATIONS THEN Raise("UnsupportedError")
    ELSE IF n.values = <<>> THEN Raise("UnsupportedError")
    ELSE LET got == collect_loop(n.values, 1, c, <<>>, <<>>) IN
         IF got.status # "ok" THEN Raise(got.status)
         ELSE Ok(Append(got.terms, App(n.op, got.args)))

eval_name(n, c) ==
    LET var == ScopeGet(c, n.name) IN
    IF var = None THEN Raise("UnsupportedError")
    ELSE Ok(<<var>>)

eval_unary_op(n, c) ==
    IF n.op \notin UNARY_OPERATIONS THEN Raise("UnsupportedError")
    ELSE LET values == eval_expr(n.operand, c) IN
         IF values.status # "ok" THEN values
         ELSE Ok(Append(Front(values.terms), App(n.op, <<Last(values.terms)>>)))

eval_ternary_op(n, c) ==
    IF n.test = None THEN Raise("UnsupportedError")
    ELSE IF n.body = None THEN Raise("UnsupportedError")
    ELSE IF n.orelse = None THEN Raise("UnsupportedError")
    ELSE LET tests == eval_expr(n.test, c) IN
         IF tests.status # "ok" THEN tests
         ELSE LET bodies == eval_expr(n.body, c) IN
              IF bodies.status # "ok" THEN bodies
              ELSE LET elses == eval_expr(n.orelse, c) IN
                   IF elses.status # "ok" THEN elses
                   ELSE Ok(<<List(Front(tests.terms)),      \* yield tests[:-1]
                             List(Front(bodies.terms)),     \* yield bodies[:-1]
                             List(Front(elses.terms)),      \* yield elses[:-1]
                             App("If", <<Last(tests.terms), Last(bodies.terms),
                                         Last(elses.terms)>>)>>)

eval_call(n, c) ==
    IF n.func.kind # "Name" THEN Raise("UnsupportedError")
    ELSE LET got == collect_loop(n.args, 1, c, <<>>, <<>>)
             target == n.func.name
             call_args == got.args
         IN
         IF got.status # "ok" THEN Raise(got.status)
         ELSE IF Len(call_args) = 1 /\ target = "abs"
         THEN LET a == call_args[1] IN
              Ok(Append(got.terms,
                        App("If", <<App(">=", <<a, Val("int", "0")>>), a,
                                    App("-", <<a>>)>>)))
         ELSE IF Len(call_args) = 2 /\ target = "min"
         THEN LET a == call_args[1]
                  b == call_args[2]
              IN Ok(Append(got.terms, App("If", <<App("<", <<a, b>>), a, b>>)))
         ELSE IF Len(call_args) = 2 /\ target = "max"
         THEN LET a == call_args[1]
                  b == call_args[2]
              IN Ok(Append(got.terms, App("If", <<App(">", <<a, b>>), a, b>>)))
         ELSE Raise("UnsupportedError")

\* HandlersRegistry: the handler registered for the node's type.
eval_expr(n, c) ==
    CASE n.kind = "Const" -> eval_const(n, c)
      [] n.kind = "BinOp" -> eval_bin_op(n, c)
      [] n.kind = "Compare" -> eval_compare(n, c)
      [] n.kind = "BoolOp" -> eval_bool_op(n, c)
      [] n.kind = "Name" -> eval_name(n, c)
      [] n.kind = "UnaryOp" -> eval_unary_op(n, c)
      [] n.kind = "IfExp" -> eval_ternary_op(n, c)
      [] n.kind = "Call" -> eval_call(n, c)


(***************************************************************************)
(* The expressions the compiler is run on.                                 *)
(***************************************************************************)
NameA == Name("a")
NameB == Name("b")
NameZ == Name("z")                      \* not bound in any scope
Int1 == Const("int", "1")

Scope == [a |-> Sym("a"), b |-> Sym("b")]
Contexts == {Scope}

Operands == {Int1, NameA, NameB, NameZ}

Consts ==
    {Const(t, v) : t \in CONSTS \cup {"NoneType", "bytes"}, v \in {"1"}}
    \cup {Const("bool", "True"), Const("int", "2")}
Names == {NameA, NameB, NameZ}
BinTags == BIN_OPERATIONS \cup {"", "<=>"}
UnaryTags == UNARY_OPERATIONS \cup {"", "not"}
CompareTags == COMAPARISON \cup {"", "is"}
BoolTags == BOOL_OPERATIONS \cup {"", "xor"}
Callees == {Name("abs"), Name("min"), Name("max"), Name("len"), Attribute("abs")}

BinOps == {BinOp(op, l, r) : op \in BinTags, l \in Operands, r \in Operands}
UnaryOps == {UnaryOp(op, x) : op \in UnaryTags, x \in Operands}
Pairs == {Pair(op, r) : op \in CompareTags, r \in Operands}
\* the parser gives a Compare node at least one (operator, right) pair
Compares ==
    {Compare(l, ops) : l \in Operands, ops \in SeqsUpTo(Pairs, MaxPairs) \ {<<>>}}
BoolOps == {BoolOp(op, vs) : op \in BoolTags, vs \in SeqsUpTo(Operands, MaxValues)}
IfExps ==
    {IfExp(t, b, e) : t \in {Int1, NameA, NameZ, None},
                      b \in {Int1, NameA, NameZ, None},
                      e \in {Int1, NameB, NameZ, None}}
Calls == {Call(f, as) : f \in Callees, as \in SeqsUpTo(Operands, MaxArgs)}

\* Expressions of depth two: every node kind over composite children.
Inner ==
    {Int1, NameA,
     IfExp(NameA, Int1, NameB),
     BinOp("+", NameA, Int1),
     BinOp("<=>", NameA, Int1),
     UnaryOp("-", NameZ),
     Compare(NameA, <<Pair("<", NameB)>>),
     Call(Name("abs"), <<NameB>>)}
Nested ==
    {BinOp("+", l, r) : l \in Inner, r \in Inner}
    \cup {UnaryOp("-", x) : x \in Inner}
    \cup {Compare(l, <<Pair("<", r)>>) : l \in Inner, r \in Inner}
    \cup {BoolOp("and", <<l, r>>) : l \in Inner, r \in Inner}
    \cup {IfExp(t, NameA, e) : t \in Inner, e \in Inner}
    \cup {IfExp(NameA, b, Int1) : b \in Inner}
    \cup {Call(f, <<x>>) : f \in Callees, x \in Inner}
    \cup {Call(Name("min"), <<l, r>>) : l \in Inner, r \in Inner}

Nodes ==
    Consts \cup Names \cup BinOps \cup UnaryOps \cup Compares \cup BoolOps
    \cup IfExps \cup Calls \cup Nested

(***************************************************************************)
(* The compiler's specification: list(eval_expr(node, ctx)) for one node.  *)
(* One action per registered handler; the registry picks it by node type.  *)
(***************************************************************************)
InitCompile ==
    /\ node \in Nodes
    /\ ctx \in Contexts
    /\ result = NotRun
    /\ func = None
    /\ stubs = "None"
    /\ rule = "none"
    /\ errors = <<>>
    /\ runs = <<>>

\* list(eval_expr(node, ctx)) has been consumed and ended in `outcome`.
Consumed(outcome) ==
    /\ result' = outcome
    /\ UNCHANGED <<node, ctx>>
    /\ UNCHANGED linterVars

EvalConst ==
    /\ result = NotRun
    /\ node.kind = "Const"
    /\ Consumed(eval_const(node, ctx))

EvalBinOp ==
    /\ result = NotRun
    /\ node.kind = "BinOp"
    /\ Consumed(eval_bin_op(node, ctx))

EvalCompare ==
    /\ result = NotRun
    /\ node.kind = "Compare"
    /\ Consumed(eval_compare(node, ctx))

EvalBoolOp ==
    /\ result = NotRun
    /\ node.kind = "BoolOp"
    /\ Consumed(eval_bool_op(node, ctx))

EvalName ==
    /\ result = NotRun
    /\ node.kind = "Name"
    /\ Consumed(eval_name(node, ctx))

EvalUnaryOp ==
    /\ result = NotRun
    /\ node.kind = "UnaryOp"
    /\ Consumed(eval_unary_op(node, ctx))

EvalTernaryOp ==
    /\ result = NotRun
    /\ node.kind = "IfExp"
    /\ Consumed(eval_ternary_op(node, ctx))

EvalCall ==
    /\ result = NotRun
    /\ node.kind = "Call"
    /\ Consumed(eval_call(node, ctx))

NextCompile ==
    \/ EvalConst
    \/ EvalBinOp
    \/ EvalCompare
    \/ EvalBoolOp
    \/ EvalName
    \/ EvalUnaryOp
    \/ EvalTernaryOp
    \/ EvalCall

SpecCompile == InitCompile /\ [][NextCompile]_vars


(***************************************************************************)
(* The linter: deal/linter/_rules.py.                                      *)
(*                                                                         *)
(* A Func is what the extractors give for one function: name (a sequence   *)
(* of characters), line, col, contracts, and the tokens get_returns,       *)
(* get_exceptions, get_exceptions_stubs, get_asserts and get_markers       *)
(* yield for its body, plus has_returns(body).  A Contract has a category, *)
(* its args (AST nodes), the exceptions it allows, and run: what           *)
(* Contract.run ends in for each return value.                             *)
(***************************************************************************)
Error(code, text, value, row, col) ==
    [code |-> code, text |-> text, value |-> value, row |-> row, col |-> col]

RECURSIVE Flatten(_)
Flatten(ss) == IF ss = <<>> THEN <<>> ELSE Head(ss) \o Flatten(Tail(ss))

\* Python values Contract.run returns, and the NameError it may raise.
PyTrue == [type |-> "bool", value |-> "True"]
PyFalse == [type |-> "bool", value |-> "False"]
PyStr(text) == [type |-> "str", value |-> text]
NameError == [type |-> "NameError", value |-> ""]
isinstance_str(x) == x.type = "str"
\* Python truthiness of a bool or a str
Truthy(x) == IF x.type = "bool" THEN x.value = "True" ELSE x.value # ""

CheckReturns_code == 12
CheckReturns_message == "post contract error"

\* CheckReturns._check, from token i on: the Errors yielded and the calls of
\* contract.run made, ci being the contract's place in func.contracts.
RECURSIVE CheckReturns_loop(_, _, _, _)
CheckReturns_loop(tokens, contract, ci, i) ==
    IF i > Len(tokens) THEN [errors |-> <<>>, runs |-> <<>>]
    ELSE LET token == tokens[i]
             res == contract.run[token.value]
             call == [contract |-> ci, site |-> i, result |-> res]
         IN
         IF res = NameError
         THEN [errors |-> <<>>, runs |-> <<call>>]       \* return
         ELSE LET rest == CheckReturns_loop(tokens, contract, ci, i + 1)
                  yielded ==
                      IF isinstance_str(res)
                      THEN <<Error(CheckReturns_code, res.value, token.value,
                                   token.line, token.col)>>
                      ELSE IF ~Truthy(res)
                      THEN <<Error(CheckReturns_code, CheckReturns_message,
                                   token.value, token.line, token.col)>>
                      ELSE <<>>
              IN [errors |-> yielded \o rest.errors, runs |-> <<call>> \o rest.runs]

\* _check with `continue` in place of `return` on NameError.
RECURSIVE CheckReturns_loop_continue(_, _, _, _)
CheckReturns_loop_continue(tokens, contract, ci, i) ==
    IF i > Len(tokens) THEN [errors |-> <<>>, runs |-> <<>>]
    ELSE LET token == tokens[i]
             res == contract.run[token.value]
             call == [contract |-> ci, site |-> i, result |-> res]
             rest == CheckReturns_loop_continue(tokens, contract, ci, i + 1)
             yielded ==
                 IF res = NameError THEN <<>>
                 ELSE IF isinstance_str(res)
                 THEN <<Error(CheckReturns_code, res.value, token.value,
                              token.line, token.col)>>
                 ELSE IF ~Truthy(res)
                 THEN <<Error(CheckReturns_code, CheckReturns_message,
                              token.value, token.line, token.col)>>
                 ELSE <<>>
         IN [errors |-> yielded \o rest.errors, runs |-> <<call>> \o rest.runs]

\* _check without the isinstance(result, str) branch: only `if not result`.
RECURSIVE CheckReturns_loop_truthy(_, _, _, _)
CheckReturns_loop_truthy(tokens, contract, ci, i) ==
    IF i > Len(tokens) THEN [errors |-> <<>>, runs |-> <<>>]
    ELSE LET token == tokens[i]
             res == contract.run[token.value]
             call == [contract |-> ci, site |-> i, result |-> res]
         IN
         IF res = NameError
         THEN [errors |-> <<>>, runs |-> <<call>>]
         ELSE LET rest == CheckReturns_loop_truthy(tokens, contract, ci, i + 1)
                  yielded ==
                      IF ~Truthy(res)
                      THEN <<Error(CheckReturns_code, CheckReturns_message,
                                   token.value, token.line, token.col)>>
                      ELSE <<>>
              IN [errors |-> yielded \o rest.errors, runs |-> <<call>> \o rest.runs]

CheckReturns_check_continue(f, contract, ci) ==
    CheckReturns_loop_continue(f.returns, contract, ci, 1)

CheckReturns_check_truthy(f, contract, ci) ==
    CheckReturns_loop_truthy(f.returns, contract, ci, 1)

CheckReturns_check(f, contract, ci) ==
    CheckReturns_loop(f.returns, contract, ci, 1)

\* CheckReturns.__call__, from contract ci on.
RECURSIVE CheckReturns_call(_, _)
CheckReturns_call(f, ci) ==
    IF ci > Len(f.contracts) THEN [errors |-> <<>>, runs |-> <<>>]
    ELSE LET contract == f.contracts[ci]
             rest == CheckReturns_call(f, ci + 1)
         IN
         IF contract.category # "POST" THEN rest
         ELSE LET got == CheckReturns_check(f, contract, ci) IN
              [errors |-> got.errors \o rest.errors, runs |-> got.runs \o rest.runs]


(***************************************************************************)
(* Exceptions: a raised or allowed value is a class or a string (the name  *)
(* of an exception that could not be resolved to a class).                 *)
(***************************************************************************)
ExcType(name) == [type |-> "type", name |-> name]
ExcStr(name) == [type |-> "str", name |-> name]

\* cls.__mro__: the class and its bases (MyValueError subclasses ValueError)
Mro ==
    [Exception |-> {"Exception"},
     ArithmeticError |-> {"ArithmeticError", "Exception"},
     ZeroDivisionError |-> {"ZeroDivisionError", "ArithmeticError", "Exception"},
     ValueError |-> {"ValueError", "Exception"},
     MyValueError |-> {"MyValueError", "ValueError", "Exception"}]

\* issubclass(exc, types) with the bases of the two swapped
issubclass_swapped(exc, types) == \E t \in types : exc.name \in Mro[t.name]

\* issubclass(exc, types) for a tuple of classes
issubclass(exc, types) == \E t \in types : t.name \in Mro[exc.name]

Range(seq) == {seq[i] : i \in DOMAIN seq}

CheckRaises_code == 21
CheckRaises_message == "raises contract error"

\* the body of the loop `for token in chain(*tokens)` of CheckRaises._check
CheckRaises_token(token, allowed, allowed_types) ==
    IF token.value \in allowed THEN <<>>
    ELSE IF token.value.type = "type" /\ issubclass(token.value, allowed_types)
    THEN <<>>
    ELSE <<Error(CheckRaises_code, CheckRaises_message, token.value.name,
                 token.line, token.col)>>

CheckRaises_check(f, contract, st) ==
    LET allowed == Range(contract.exceptions)
        allowed_types == {exc \in allowed : exc.type # "str"}
        tokens == IF st # "None" THEN f.exceptions \o f.exceptions_stubs
                  ELSE f.exceptions
    IN Flatten([i \in DOMAIN tokens |->
                   CheckRaises_token(tokens[i], allowed, allowed_types)])

\* CheckRaises.__call__, from contract ci on
RECURSIVE CheckRaises_call(_, _, _)
CheckRaises_call(f, st, ci) ==
    IF ci > Len(f.contracts) THEN <<>>
    ELSE IF f.contracts[ci].category # "RAISES" THEN CheckRaises_call(f, st, ci + 1)
    ELSE CheckRaises_check(f, f.contracts[ci], st) \o CheckRaises_call(f, st, ci + 1)

(***************************************************************************)
(* CheckAsserts                                                            *)
(***************************************************************************)
CheckAsserts_code == 31
CheckAsserts_message == "assert error"

\* str.startswith on sequences of characters
startswith(str, prefix) ==
    Len(str) >= Len(prefix) /\ SubSeq(str, 1, Len(prefix)) = prefix

test_prefix == <<"t", "e", "s", "t", "_">>

\* a rule that takes every name starting with `test` for a test
CheckAsserts_call_test(f) ==
    IF startswith(f.name, <<"t", "e", "s", "t">>) THEN <<>>
    ELSE [i \in DOMAIN f.asserts |->
             Error(CheckAsserts_code, CheckAsserts_message, f.asserts[i].value,
                   f.asserts[i].line, f.asserts[i].col)]

CheckAsserts_call(f) ==
    IF startswith(f.name, test_prefix) THEN <<>>
    ELSE [i \in DOMAIN f.asserts |->
             Error(CheckAsserts_code, CheckAsserts_message, f.asserts[i].value,
                   f.asserts[i].line, f.asserts[i].col)]

(***************************************************************************)
(* CheckMarkers                                                            *)
(***************************************************************************)
CheckMarkers_code == 40
CheckMarkers_message == "missed marker"
codes ==
    [global |-> 41, import |-> 42, io |-> 43, read |-> 44, write |-> 45,
     stdout |-> 46, stderr |-> 47, network |-> 48]

\* deal.has(*markers): the has_<marker> properties of the Has object
Has(markers) ==
    LET has_read == {"io", "read"} \cap markers # {}
        has_stdout == {"io", "write", "stdout"} \cap markers # {}
        has_stderr == {"io", "write", "stderr"} \cap markers # {}
        has_network == {"io", "network"} \cap markers # {}
        has_write == has_stdout \/ has_stderr
    IN [global |-> "global" \in markers,
        import |-> "import" \in markers,
        io |-> has_read \/ has_write \/ has_network,
        read |-> has_read,
        write |-> has_write,
        stdout |-> has_stdout,
        stderr |-> has_stderr,
        network |-> has_network]

\* ast.literal_eval of a string literal
literal_eval(arg) == arg.value

\* _check that reports every marker with the rule's own code
CheckMarkers_check_generic(f, has) ==
    (IF ~has.io /\ ~f.has_returns
     THEN <<Error(codes["io"], CheckMarkers_message, "io", f.line, f.col)>>
     ELSE <<>>)
    \o Flatten([i \in DOMAIN f.markers |->
                   IF has[f.markers[i].marker] THEN <<>>
                   ELSE <<Error(CheckMarkers_code, CheckMarkers_message,
                                f.markers[i].marker, f.markers[i].line,
                                f.markers[i].col)>>])

CheckMarkers_check(f, has) ==
    (IF ~has.io /\ ~f.has_returns
     THEN <<Error(codes["io"], CheckMarkers_message, "io", f.line, f.col)>>
     ELSE <<>>)
    \o Flatten([i \in DOMAIN f.markers |->
                   IF has[f.markers[i].marker] THEN <<>>
                   ELSE <<Error(codes[f.markers[i].marker], CheckMarkers_message,
                                f.markers[i].marker, f.markers[i].line,
                                f.markers[i].col)>>])

\* __call__ without its final `return`: every capability contract is checked
RECURSIVE CheckMarkers_call_all(_, _)
CheckMarkers_call_all(f, ci) ==
    IF ci > Len(f.contracts) THEN <<>>
    ELSE LET contract == f.contracts[ci] IN
         IF contract.category = "HAS"
         THEN CheckMarkers_check(f, Has({literal_eval(arg) : arg \in Range(contract.args)}))
              \o CheckMarkers_call_all(f, ci + 1)
         ELSE IF contract.category \in {"PURE", "SILENT"}
         THEN CheckMarkers_check(f, Has({})) \o CheckMarkers_call_all(f, ci + 1)
         ELSE CheckMarkers_call_all(f, ci + 1)

\* CheckMarkers.__call__, from contract ci on
RECURSIVE CheckMarkers_call(_, _)
CheckMarkers_call(f, ci) ==
    IF ci > Len(f.contracts) THEN <<>>
    ELSE LET contract == f.contracts[ci] IN
         IF contract.category = "HAS"
         THEN CheckMarkers_check(f, Has({literal_eval(arg) : arg \in Range(contract.args)}))
         ELSE IF contract.category \in {"PURE", "SILENT"}
         THEN CheckMarkers_check(f, Has({}))
         ELSE CheckMarkers_call(f, ci + 1)


(***************************************************************************)
(* The functions the rules are run on.                                     *)
(***************************************************************************)
\* The i-th token of a body sits on its own line, at its own column.
Tokens(values) ==
    [i \in DOMAIN values |-> [value |-> values[i], line |-> i + 1, col |-> 4 * i]]
MarkerTokens(markers) ==
    [i \in DOMAIN markers |-> [marker |-> markers[i], line |-> i + 1, col |-> 4 * i]]

Chars(name) ==
    CASE name = "test_f" -> <<"t", "e", "s", "t", "_", "f">>
      [] name = "test_" -> <<"t", "e", "s", "t", "_">>
      [] name = "testf" -> <<"t", "e", "s", "t", "f">>
      [] name = "test" -> <<"t", "e", "s", "t">>
      [] name = "f_test_" -> <<"f", "_", "t", "e", "s", "t", "_">>
      [] name = "check" -> <<"c", "h", "e", "c", "k">>
      [] name = "f" -> <<"f">>

ReturnValues == {"1", "x"}
AlwaysTrue == [v \in ReturnValues |-> PyTrue]
AlwaysFalse == [v \in ReturnValues |-> PyFalse]

Contract(category, args, exceptions, run) ==
    [category |-> category, args |-> args, exceptions |-> exceptions, run |-> run]

Func(name, contracts, returns, has_ret, exceptions, exceptions_stubs, asserts, markers) ==
    [name |-> Chars(name), line |-> 1, col |-> 0, contracts |-> contracts,
     returns |-> returns, has_returns |-> has_ret, exceptions |-> exceptions,
     exceptions_stubs |-> exceptions_stubs, asserts |-> asserts,
     markers |-> markers]

\* CheckReturns: postconditions with every behaviour of Contract.run, and a
\* precondition that no return value satisfies.
ReturnsContracts ==
    {Contract("POST", <<>>, <<>>, run) :
        run \in [ReturnValues -> {PyTrue, PyFalse, PyStr("expected x > 0"), NameError}]}
    \cup {Contract("PRE", <<>>, <<>>, AlwaysFalse)}
ReturnsFuncs ==
    {Func("f", cs, Tokens(vs), vs # <<>>, <<>>, <<>>, <<>>, <<>>) :
        cs \in SeqsUpTo(ReturnsContracts, MaxContracts),
        vs \in SeqsUpTo(ReturnValues, MaxReturns)}

\* CheckRaises
RaisesContracts ==
    {Contract("RAISES", <<>>, allowed, AlwaysTrue) :
        allowed \in {<<>>, <<ExcType("ValueError")>>,
                     <<ExcType("ArithmeticError"), ExcStr("KeyError")>>}}
    \cup {Contract("POST", <<>>, <<ExcType("Exception")>>, AlwaysTrue)}
Raised ==
    {ExcType("ValueError"), ExcType("MyValueError"), ExcType("ZeroDivisionError"),
     ExcStr("KeyError"), ExcStr("ValueError")}
RaisedByStubs == {ExcType("ZeroDivisionError"), ExcType("MyValueError")}
RaisesFuncs ==
    {Func("f", cs, <<>>, FALSE, Tokens(body), Tokens(stubbed), <<>>, <<>>) :
        cs \in SeqsUpTo(RaisesContracts, MaxContracts),
        body \in SeqsUpTo(Raised, MaxRaised),
        stubbed \in {<<>>} \cup {<<e>> : e \in RaisedByStubs}}

\* CheckAsserts
AssertsContracts ==
    {<<>>, <<Contract("PRE", <<>>, <<>>, AlwaysTrue)>>,
     <<Contract("RAISES", <<>>, <<>>, AlwaysTrue)>>}
AssertsFuncs ==
    {Func(name, cs, <<>>, FALSE, <<>>, <<>>, Tokens(as), <<>>) :
        name \in {"test_f", "test_", "testf", "test", "f_test_", "check"},
        cs \in AssertsContracts,
        as \in SeqsUpTo({"x > 0", "False"}, MaxAsserts)}

\* CheckMarkers: the marker tokens of a body are any of these, in this order
BodyMarkers ==
    <<"global", "import", "io", "read", "write", "stdout", "stderr", "network">>
RECURSIVE SubSeqs(_)
SubSeqs(seq) ==
    IF seq = <<>> THEN {<<>>}
    ELSE LET rest == SubSeqs(Tail(seq)) IN
         rest \cup {<<Head(seq)>> \o r : r \in rest}
Str(value) == Const("str", value)
MarkersContracts ==
    {Contract("HAS", args, <<>>, AlwaysTrue) :
        args \in {<<Str("io")>>, <<Str("global"), Str("import")>>,
                  <<Str("read"), Str("stdout"), Str("network")>>}}
    \cup {Contract("PURE", <<>>, <<>>, AlwaysTrue),
          Contract("SILENT", <<>>, <<>>, AlwaysTrue),
          Contract("RAISES", <<>>, <<>>, AlwaysTrue)}
MarkersFuncs ==
    {Func("f", cs, <<>>, has_ret, <<>>, <<>>, <<>>, MarkerTokens(ms)) :
        cs \in SeqsUpTo(MarkersContracts, MaxContracts),
        has_ret \in BOOLEAN,
        ms \in SubSeqs(BodyMarkers)}

(***************************************************************************)
(* The linter's specifications: one rule is called on one function.        *)
(***************************************************************************)
InitRule(funcs, stubbers) ==
    /\ func \in funcs
    /\ stubs \in stubbers
    /\ rule = "none"
    /\ errors = <<>>
    /\ runs = <<>>
    /\ node = None
    /\ ctx = Scope
    /\ result = NotRun

\* list(rule(func, stubs)) has been consumed
Yielded(name, es, rs) ==
    /\ rule' = name
    /\ errors' = es
    /\ runs' = rs
    /\ UNCHANGED <<func, stubs>>
    /\ UNCHANGED compilerVars

CheckReturns ==
    /\ rule = "none"
    /\ LET got == CheckReturns_call(func, 1) IN
       Yielded("CheckReturns", got.errors, got.runs)

CheckRaises ==
    /\ rule = "none"
    /\ Yielded("CheckRaises", CheckRaises_call(func, stubs, 1), <<>>)

CheckAsserts ==
    /\ rule = "none"
    /\ Yielded("CheckAsserts", CheckAsserts_call(func), <<>>)

CheckMarkers ==
    /\ rule = "none"
    /\ Yielded("CheckMarkers", CheckMarkers_call(func, 1), <<>>)

InitReturns == InitRule(ReturnsFuncs, {"None"})
SpecReturns == InitReturns /\ [][CheckReturns]_vars

InitRaises == InitRule(RaisesFuncs, {"None", "StubsManager"})
SpecRaises == InitRaises /\ [][CheckRaises]_vars

InitAsserts == InitRule(AssertsFuncs, {"None"})
SpecAsserts == InitAsserts /\ [][CheckAsserts]_vars

InitMarkers == InitRule(MarkersFuncs, {"None"})
SpecMarkers == InitMarkers /\ [][CheckMarkers]_vars


(***************************************************************************)
(* Properties of the compiler, under SpecCompile.                          *)
(***************************************************************************)
Compiled == result # NotRun

\* C1: whenever compilation returns, it returns a non-empty sequence in
\* which every element is a single constraint term, the last one being the
\* term of the expression's own value; a Conditional and a node with a
\* Conditional below it included.
C1_SequenceOfTerms ==
    result.status = "ok" =>
        /\ Len(result.terms) > 0
        /\ \A i \in DOMAIN result.terms : IsTerm(result.terms[i])

UnsupportedOperator(n) ==
    \/ n.kind = "BinOp" /\ n.op \notin BIN_OPERATIONS
    \/ n.kind = "UnaryOp" /\ n.op \notin UNARY_OPERATIONS
    \/ n.kind = "BoolOp" /\ n.op \notin BOOL_OPERATIONS
    \/ n.kind = "Compare" /\ \E i \in DOMAIN n.ops : n.ops[i].op \notin COMAPARISON

\* C2: compiling a binary, unary, boolean or comparison node whose operator
\* tag is outside the supported table ends in UnsupportedError, never in
\* another failure nor in a term.
C2_UnsupportedOperatorAbstains ==
    (Compiled /\ UnsupportedOperator(node)) => result.status = "UnsupportedError"

\* an operand that compiles to its value term alone
NoSideTerms(n) ==
    LET got == eval_expr(n, ctx) IN got.status = "ok" /\ Len(got.terms) = 1
ValueTerm(n) == Last(eval_expr(n, ctx).terms)

PlainChain(n) ==
    /\ n.kind = "Compare"
    /\ NoSideTerms(n.left)
    /\ \A i \in DOMAIN n.ops :
          n.ops[i].op \in COMAPARISON /\ NoSideTerms(n.ops[i].right)

\* C3: a chained comparison of left operand L with n pairs (op_i, R_i) of
\* supported operators, all operands without side terms, compiles to exactly
\* the n terms op_i(L, R_i) in pair order: every pair is compared against
\* the original left term L, never against the previous pair's right operand.
C3_ChainComparesOriginalLeft ==
    (Compiled /\ PlainChain(node)) =>
        result = Ok([i \in DOMAIN node.ops |->
                        App(node.ops[i].op,
                            <<ValueTerm(node.left), ValueTerm(node.ops[i].right)>>)])

\* a compiled chain `L op1 R1 op2 R2` with R1 different from L, whose second
\* term has L on its left
C3_Witness ==
    /\ Compiled
    /\ PlainChain(node)
    /\ Len(node.ops) = 2
    /\ ValueTerm(node.ops[1].right) # ValueTerm(node.left)
    /\ Len(result.terms) = 2
    /\ result.terms[2].args[1] = ValueTerm(node.left)

Whitelisted(n) ==
    /\ n.func.kind = "Name"
    /\ \/ n.func.name = "abs" /\ Len(n.args) = 1
       \/ n.func.name \in {"min", "max"} /\ Len(n.args) = 2

CallTerm(n) ==
    LET a == ValueTerm(n.args[1]) IN
    IF n.func.name = "abs"
    THEN App("If", <<App(">=", <<a, Val("int", "0")>>), a, App("-", <<a>>)>>)
    ELSE LET b == ValueTerm(n.args[2]) IN
         IF n.func.name = "min"
         THEN App("If", <<App("<", <<a, b>>), a, b>>)
         ELSE App("If", <<App(">", <<a, b>>), a, b>>)

\* C8: compiling a Call abstains (UnsupportedError) unless the callee is the
\* bare name abs with 1 argument or min/max with 2 arguments; in those cases
\* the value term is abs(a) = If(a >= 0, a, -a), min(a, b) = If(a < b, a, b),
\* max(a, b) = If(a > b, a, b).
C8_CallAbstainsUnlessWhitelisted ==
    (Compiled /\ node.kind = "Call") =>
        IF Whitelisted(node)
        THEN result.status = "ok" => Last(result.terms) = CallTerm(node)
        ELSE result.status = "UnsupportedError"

(***************************************************************************)
(* Properties of CheckReturns, under SpecReturns.                          *)
(***************************************************************************)
\* the diagnostics of the calls of Contract.run that completed, in order
DiagnosticsOf(calls) ==
    Flatten([k \in DOMAIN calls |->
        LET site == func.returns[calls[k].site]
            res == calls[k].result
        IN IF res = NameError \/ res = PyTrue THEN <<>>
           ELSE <<[code |-> 12,
                   text |-> IF res.type = "str" THEN res.value
                            ELSE "post contract error",
                   value |-> site.value, row |-> site.line, col |-> site.col]>>])

CallsOf(ci) == SelectSeq(runs, LAMBDA call : call.contract = ci)

\* C4 as claimed: once Contract.run raises NameError at a return site, no
\* diagnostic is emitted for that site, no remaining return site of the
\* function is checked any further (diagnostics of earlier sites are kept),
\* and a failure at the first return site leaves the function without any
\* postcondition diagnostic.
C4_StopsFunctionAtNameError ==
    rule = "CheckReturns" =>
        \A k \in DOMAIN runs :
            runs[k].result = NameError =>
                /\ \A j \in DOMAIN runs : j > k => runs[j].site <= runs[k].site
                /\ \A j \in DOMAIN errors :
                      errors[j].row < func.returns[runs[k].site].line
                /\ runs[k].site = 1 => errors = <<>>

\* C4 as amended: a NameError at a return site stops the checking of that
\* contract only.  The failing (contract, site) pair gets no diagnostic, the
\* contract is run at no later site, what was emitted before is kept, and
\* every other postcondition contract is still run from the first return
\* site on; a failure at the first site leaves that contract without any
\* diagnostic.
C4_StopsContractAtNameError ==
    rule = "CheckReturns" =>
        /\ errors = DiagnosticsOf(runs)
        /\ \A k \in DOMAIN runs :
              /\ runs[k].result = NameError =>
                    /\ \A j \in DOMAIN runs : j > k => runs[j].contract # runs[k].contract
                    /\ runs[k].site = 1 => DiagnosticsOf(CallsOf(runs[k].contract)) = <<>>
              /\ runs[k].site > 1 =>
                    /\ runs[k - 1].contract = runs[k].contract
                    /\ runs[k - 1].site = runs[k].site - 1
                    /\ runs[k - 1].result # NameError
        /\ \A ci \in DOMAIN func.contracts :
              (func.contracts[ci].category = "POST" /\ func.returns # <<>>) =>
                  LET calls == CallsOf(ci) IN
                  /\ calls # <<>>
                  /\ calls[1].site = 1
                  /\ \/ Last(calls).result = NameError
                     \/ Last(calls).site = Len(func.returns)

\* two postconditions, two return sites: the first contract is violated at
\* the first site and fails to resolve at the second, the second contract
\* is still run and violated
C4_Witness ==
    /\ rule = "CheckReturns"
    /\ Len(func.contracts) = 2
    /\ Len(runs) = 4
    /\ runs[1].result = PyFalse
    /\ runs[2].result = NameError
    /\ runs[3].contract = 2
    /\ Len(errors) = 3

\* C5: every (postcondition, return site) pair on which Contract.run
\* completes gives exactly one diagnostic with code 12 at the row and col of
\* that site when the result is a string (the text) or false (the default
\* message), and none when it is true; contracts of other categories are
\* never run and give no code-12 diagnostic.
C5_DiagnosticPerViolatedSite ==
    rule = "CheckReturns" =>
        /\ errors = DiagnosticsOf(runs)
        /\ \A k \in DOMAIN runs :
              LET contract == func.contracts[runs[k].contract] IN
              /\ contract.category = "POST"
              /\ runs[k].result = contract.run[func.returns[runs[k].site].value]
        /\ \A ci \in DOMAIN func.contracts :
              func.contracts[ci].category # "POST" => CallsOf(ci) = <<>>
        /\ (\A ci \in DOMAIN func.contracts : func.contracts[ci].category # "POST")
              => errors = <<>>

\* a string result at the first site and a false result at the second, in a
\* function that also carries a precondition no value satisfies
C5_Witness ==
    /\ rule = "CheckReturns"
    /\ \E ci \in DOMAIN func.contracts : func.contracts[ci].category = "PRE"
    /\ Len(runs) = 2
    /\ runs[1].result = PyStr("expected x > 0")
    /\ runs[2].result = PyFalse
    /\ Len(errors) = 2
    /\ errors[1].text = "expected x > 0"
    /\ errors[2].text = "post contract error"
    /\ errors[2].row = func.returns[2].line


(***************************************************************************)
(* Properties of CheckRaises, under SpecRaises.                            *)
(***************************************************************************)
\* neither in the allowed set nor a class below an allowed class
Disallowed(exc, allowed) ==
    /\ exc \notin allowed
    /\ ~(/\ exc.type = "type"
         /\ \E a \in allowed : a.type = "type" /\ a.name \in Mro[exc.name])

RaisedTokens == IF stubs = "None" THEN func.exceptions
                ELSE func.exceptions \o func.exceptions_stubs

RaisesContractsOf(f) == SelectSeq(f.contracts, LAMBDA c : c.category = "RAISES")

\* C7: for each allowed-exceptions contract and each raised-exception token
\* (those of the body, then those of the stubs when a stub provider is
\* given), exactly one diagnostic with code 21 is emitted if and only if the
\* raised value is neither a member of the allowed set nor a class that is a
\* subclass of an allowed class.
C7_DiagnosticPerDisallowedException ==
    rule = "CheckRaises" =>
        errors =
            Flatten([c \in DOMAIN RaisesContractsOf(func) |->
                Flatten([i \in DOMAIN RaisedTokens |->
                    IF Disallowed(RaisedTokens[i].value,
                                  Range(RaisesContractsOf(func)[c].exceptions))
                    THEN <<[code |-> 21, text |-> "raises contract error",
                            value |-> RaisedTokens[i].value.name,
                            row |-> RaisedTokens[i].line,
                            col |-> RaisedTokens[i].col]>>
                    ELSE <<>>])])

\* allowed {ValueError}; the body raises ZeroDivisionError and a subclass of
\* ValueError, a stub raises ZeroDivisionError: the two ZeroDivisionErrors
\* are flagged, the subclass is not
C7_Witness ==
    /\ rule = "CheckRaises"
    /\ stubs # "None"
    /\ Len(func.contracts) = 1
    /\ func.contracts[1].category = "RAISES"
    /\ func.contracts[1].exceptions = <<ExcType("ValueError")>>
    /\ Len(func.exceptions) = 2
    /\ func.exceptions[1].value = ExcType("ZeroDivisionError")
    /\ func.exceptions[2].value = ExcType("MyValueError")
    /\ Len(func.exceptions_stubs) = 1
    /\ func.exceptions_stubs[1].value = ExcType("ZeroDivisionError")
    /\ Len(errors) = 2
    /\ errors[1].code = 21
    /\ errors[1].value = "ZeroDivisionError"
    /\ errors[2].row = func.exceptions_stubs[1].line

(***************************************************************************)
(* Properties of CheckAsserts, under SpecAsserts.                          *)
(***************************************************************************)
IsTestName(name) ==
    /\ Len(name) >= 5
    /\ name[1] = "t" /\ name[2] = "e" /\ name[3] = "s" /\ name[4] = "t"
    /\ name[5] = "_"

\* C10: one diagnostic with code 31, at the row and col of the assert, for
\* every assert token of a function whose name does not start with `test_`,
\* with or without contracts; none for a function whose name does.
C10_DiagnosticPerAssert ==
    rule = "CheckAsserts" =>
        IF IsTestName(func.name) THEN errors = <<>>
        ELSE /\ Len(errors) = Len(func.asserts)
             /\ \A i \in DOMAIN func.asserts :
                   /\ errors[i].code = 31
                   /\ errors[i].row = func.asserts[i].line
                   /\ errors[i].col = func.asserts[i].col

\* a function named `testf`, without contracts, with two asserts
C10_Witness ==
    /\ rule = "CheckAsserts"
    /\ func.name = <<"t", "e", "s", "t", "f">>
    /\ func.contracts = <<>>
    /\ Len(func.asserts) = 2
    /\ Len(errors) = 2
    /\ errors[2].code = 31

(***************************************************************************)
(* Properties of CheckMarkers, under SpecMarkers.                          *)
(***************************************************************************)
IsCapability(contract) == contract.category \in {"HAS", "PURE", "SILENT"}
HasCapability(f) == \E i \in DOMAIN f.contracts : IsCapability(f.contracts[i])
FirstCapability(f) ==
    f.contracts[CHOOSE i \in DOMAIN f.contracts :
                    /\ IsCapability(f.contracts[i])
                    /\ \A j \in 1..(i - 1) : ~IsCapability(f.contracts[j])]
\* the capability set a contract declares
Declared(contract) ==
    IF contract.category = "HAS"
    THEN Has({contract.args[i].value : i \in DOMAIN contract.args})
    ELSE Has({})

\* C6: the diagnostics are those of the capability set of the first contract
\* whose category is HAS, PURE or SILENT (PURE and SILENT: the empty set);
\* later capability contracts are ignored, contracts of other categories
\* before it are skipped, and without a capability contract nothing is
\* emitted.
C6_FirstCapabilityContractWins ==
    rule = "CheckMarkers" =>
        errors = IF HasCapability(func)
                 THEN CheckMarkers_check(func, Declared(FirstCapability(func)))
                 ELSE <<>>

\* has(...) followed by pure, which alone would have given other diagnostics
C6_Witness ==
    /\ rule = "CheckMarkers"
    /\ Len(func.contracts) = 2
    /\ IsCapability(func.contracts[1])
    /\ IsCapability(func.contracts[2])
    /\ func.contracts[1].category = "HAS"
    /\ func.contracts[2].category = "PURE"
    /\ errors # <<>>
    /\ errors # CheckMarkers_check(func, Declared(func.contracts[2]))

MarkerCode(marker) ==
    CASE marker = "global" -> 41
      [] marker = "import" -> 42
      [] marker = "io" -> 43
      [] marker = "read" -> 44
      [] marker = "write" -> 45
      [] marker = "stdout" -> 46
      [] marker = "stderr" -> 47
      [] marker = "network" -> 48

\* C9: with the capability set selected for the function, the rule emits the
\* missing-io diagnostic (code 43 at the function's row and col) exactly when
\* has_io is false and the body has no return statement, then for every
\* marker token of the body one diagnostic with the marker's own code
\* (41..48) at the token exactly when that capability flag is false; code 40
\* is never emitted, and a function without contracts gets no diagnostic.
C9_MarkerDiagnostics ==
    rule = "CheckMarkers" =>
        /\ \A j \in DOMAIN errors : errors[j].code # 40
        /\ func.contracts = <<>> => errors = <<>>
        /\ HasCapability(func) =>
              LET has == Declared(FirstCapability(func)) IN
              errors =
                  (IF ~has.io /\ ~func.has_returns
                   THEN <<[code |-> 43, text |-> "missed marker", value |-> "io",
                           row |-> func.line, col |-> func.col]>>
                   ELSE <<>>)
                  \o Flatten([i \in DOMAIN func.markers |->
                        LET token == func.markers[i] IN
                        IF has[token.marker] THEN <<>>
                        ELSE <<[code |-> MarkerCode(token.marker),
                                text |-> "missed marker", value |-> token.marker,
                                row |-> token.line, col |-> token.col]>>])

\* has('global', 'import'), no return statement, a body that writes a global
\* and reads a file: missing-io is emitted at the function, the read is
\* flagged with 44 at its token, the global write is not flagged
C9_Witness ==
    /\ rule = "CheckMarkers"
    /\ Len(func.contracts) = 1
    /\ func.contracts[1].category = "HAS"
    /\ ~func.has_returns
    /\ Len(func.markers) = 2
    /\ func.markers[1].marker = "global"
    /\ func.markers[2].marker = "read"
    /\ Len(errors) = 2
    /\ errors[1].code = 43
    /\ errors[1].row = func.line
    /\ errors[2].code = 44
    /\ errors[2].row = func.markers[2].line

=============================================================================
